---- MODULE Spec2Model ----
(***************************************************************************)
(* Model of the TANSS document coder: the transform engine TANSSCrypto     *)
(* (src/tanss_crypto.py) and the migration driver Coder                    *)
(* (src/tanss-coder.py).                                                   *)
(*                                                                         *)
(* A Python str is a sequence of code points (integers).  A call that may  *)
(* raise returns a record [ok, val, err]: ok = TRUE carries the value,     *)
(* ok = FALSE carries the name of the exception raised.                    *)
(***************************************************************************)
EXTENDS Integers, Sequences, FiniteSets, TLC

VARIABLES
    ctor_arg,         \* the encoding_errors argument given to TANSSCrypto(), or Omitted
    encoder,          \* the TANSSCrypto instance: passphrase, encoding_errors, enc_map
    cur,              \* the caller's current value: [ok, val, err]
    hist,             \* the engine calls made so far, oldest first
    args,             \* main(): the parsed command line
    pc,               \* main(): where the run is
    backup,           \* main(): what became of the backup step
    table,            \* the rows of dokumente: ID -> [inhalt, kodiert]
    table0,           \* the rows as they were when the run started
    plain,            \* ID -> the text the row stands for, encoded or not
    runs,             \* how many times main() has been started
    documents,        \* the rows get_documents() returned, in order
    idx,              \* the for loop: the next element of documents
    stats,            \* the statistics dictionary of the run
    updates,          \* the calls of update_document, in order: [ID, committed]
    exit_code         \* what sys.exit() was called with, or NoExit

engineVars == <<ctor_arg, encoder>>

callerVars == <<cur, hist>>

driverVars == <<args, pc, backup, table, table0, plain, runs, documents, idx, stats,
                updates, exit_code>>

vars == <<ctor_arg, encoder, cur, hist,
          args, pc, backup, table, table0, plain, runs, documents, idx, stats,
          updates, exit_code>>

----------------------------------------------------------------------------
(* Bounds of the model *)

\* longest short input string
MaxLen == 2
\* engine calls in one behaviour
MaxCalls == 3
\* length of the one long input (its base64 text is longer than the passphrase)
LongLen == 25
\* rows of the table dokumente
NRows == 2
\* runs of main() on the same table, one after the other
MaxRuns == 2

----------------------------------------------------------------------------
(* Results of calls that may raise *)

Ok(v) == [ok |-> TRUE, val |-> v, err |-> ""]

Raise(e) == [ok |-> FALSE, val |-> <<>>, err |-> e]

\* largest code point chr() accepts
MaxCodePoint == 1114111

----------------------------------------------------------------------------
(* TANSSCrypto.__init__ *)

\* a passphrase whose first character is not ASCII: 0xE9 for '3'
Passphrase_not_ascii ==
    << 233, 99, 50, 101, 48, 48, 50, 97, 98, 55, 98, 52, 49, 102, 52, 57,
       100, 100, 99, 56, 55, 55, 97, 55, 50, 55, 55, 56, 55, 102, 48, 51 >>

\* "3c2e002ab7b41f49ddc877a727787f03"
Passphrase ==
    << 51, 99, 50, 101, 48, 48, 50, 97, 98, 55, 98, 52, 49, 102, 52, 57,
       100, 100, 99, 56, 55, 55, 97, 55, 50, 55, 55, 56, 55, 102, 48, 51 >>

\* the literal with one value mistyped: "Z": "1" in place of "Z": "l"
EncMapEntries_typo ==
    << <<61, 86>>, <<122, 109>>, <<53, 71>>, <<72, 97>>, <<49, 120>>,
       <<78, 67>>, <<113, 112>>, <<114, 56>>, <<47, 43>>, <<74, 105>>,
       <<50, 119>>, <<57, 84>>, <<115, 104>>, <<108, 90>>, <<86, 61>>,
       <<109, 122>>, <<71, 53>>, <<97, 72>>, <<120, 49>>, <<67, 78>>,
       <<112, 113>>, <<56, 114>>, <<43, 47>>, <<105, 74>>, <<119, 50>>,
       <<84, 57>>, <<104, 115>>, <<90, 49>> >>

\* the dict literal, entry by entry in source order: <<key, value>>
EncMapEntries ==
    << <<61, 86>>, <<122, 109>>, <<53, 71>>, <<72, 97>>, <<49, 120>>,
       <<78, 67>>, <<113, 112>>, <<114, 56>>, <<47, 43>>, <<74, 105>>,
       <<50, 119>>, <<57, 84>>, <<115, 104>>, <<108, 90>>, <<86, 61>>,
       <<109, 122>>, <<71, 53>>, <<97, 72>>, <<120, 49>>, <<67, 78>>,
       <<112, 113>>, <<56, 114>>, <<43, 47>>, <<105, 74>>, <<119, 50>>,
       <<84, 57>>, <<104, 115>>, <<90, 108>> >>

\* the dict the literal builds: of two entries with one key the later wins
EncMap ==
    [k \in {EncMapEntries[i][1] : i \in 1..Len(EncMapEntries)} |->
        LET hits == {i \in 1..Len(EncMapEntries) : EncMapEntries[i][1] = k}
        IN  EncMapEntries[CHOOSE i \in hits : \A j \in hits : j <= i][2]]

\* the values the constructor documents for encoding_errors
Policies == {"strict", "ignore", "replace", "xmlcharrefreplace"}

\* the call TANSSCrypto() with no encoding_errors argument
Omitted == "omitted"

\* def __init__(self, encoding_errors='strict'): the instance it leaves
TANSSCrypto(arg) ==
    [ passphrase |-> Passphrase,
      encoding_errors |-> IF arg = Omitted THEN "strict" ELSE arg,
      enc_map |-> EncMap ]

----------------------------------------------------------------------------
(* str.join *)

\* ''.join(pieces[lo..hi]): the strings of a list, joined
RECURSIVE Join(_, _, _)
Join(pieces, lo, hi) ==
    IF lo > hi THEN <<>>
    ELSE IF lo = hi THEN pieces[lo]
    ELSE LET mid == (lo + hi) \div 2
         IN  Join(pieces, lo, mid) \o Join(pieces, mid + 1, hi)

----------------------------------------------------------------------------
(* _switch_encode *)

\* self.enc_map.get(char, char)
EncMapGet(self, char) ==
    IF char \in DOMAIN self.enc_map THEN self.enc_map[char] ELSE char

\* result.append(...) for every char, then ''.join(result)
_switch_encode(self, data) ==
    Join([i \in 1..Len(data) |-> <<EncMapGet(self, data[i])>>], 1, Len(data))

----------------------------------------------------------------------------
(* _pass_encode *)

\* pp_i kept from call to call: it starts where the call before stopped
KeyIndex_carried(self, i) ==
    (i - 1 + (IF hist = <<>> THEN 0 ELSE Len(hist[Len(hist)].arg))) % Len(self.passphrase)

\* pp_i when the loop reaches the i-th character (1-based): it starts at 0,
\* is incremented after every character and is reset to 0 at pp_len
KeyIndex(self, i) == (i - 1) % Len(self.passphrase)

\* the loop adding the key in both directions
Shifted_always_adds(self, data, encode_type, i) ==
    data[i] + self.passphrase[((i - 1) % Len(self.passphrase)) + 1]

\* the character the loop appends for the i-th character of data
Shifted(self, data, encode_type, i) ==
    IF encode_type = 0 THEN data[i] + self.passphrase[KeyIndex(self, i) + 1]
    ELSE data[i] - self.passphrase[KeyIndex(self, i) + 1]

\* chr() raises ValueError outside 0..0x10FFFF
_pass_encode(self, data, encode_type) ==
    IF \E i \in 1..Len(data) :
           \/ Shifted(self, data, encode_type, i) < 0
           \/ Shifted(self, data, encode_type, i) > MaxCodePoint
    THEN Raise("ValueError")
    ELSE Ok(Join([i \in 1..Len(data) |-> <<Shifted(self, data, encode_type, i)>>],
                 1, Len(data)))

----------------------------------------------------------------------------
(* _base_encode: str.encode, base64.b64encode, base64.b64decode *)

BASE64_PAD == 61

\* the standard alphabet: A-Z a-z 0-9 + /
B64Char(v) ==
    IF v < 26 THEN 65 + v
    ELSE IF v < 52 THEN 97 + (v - 26)
    ELSE IF v < 62 THEN 48 + (v - 52)
    ELSE IF v = 62 THEN 43 ELSE 47

\* the value of a symbol, 64 for a character outside the alphabet
B64Val(c) ==
    IF c >= 65 /\ c <= 90 THEN c - 65
    ELSE IF c >= 97 /\ c <= 122 THEN c - 97 + 26
    ELSE IF c >= 48 /\ c <= 57 THEN c - 48 + 52
    ELSE IF c = 43 THEN 62
    ELSE IF c = 47 THEN 63 ELSE 64

\* the decimal digits of n > 0, as code points
RECURSIVE Digits(_)
Digits(n) == IF n < 10 THEN <<48 + n>> ELSE Append(Digits(n \div 10), 48 + (n % 10))

\* what the error handler puts in place of one unencodable character
Unencodable(c, errors) ==
    IF errors = "ignore" THEN <<>>
    ELSE IF errors = "replace" THEN <<63>>
    ELSE <<38, 35>> \o Digits(c) \o <<59>>

\* data.encode(codec, errors): limit is the largest code point the codec can
\* encode; each character gives one byte, or what the error handler gives
StrEncode(data, limit, errors) ==
    IF \A i \in 1..Len(data) : data[i] <= limit THEN Ok(data)
    ELSE IF errors = "strict" THEN Raise("UnicodeEncodeError")
    ELSE Ok(Join([i \in 1..Len(data) |->
                    IF data[i] <= limit THEN <<data[i]>>
                    ELSE Unencodable(data[i], errors)], 1, Len(data)))

\* the first stage encoding with the ASCII codec
Latin1Encode_ascii(data, errors) == StrEncode(data, 127, errors)

Latin1Encode(data, errors) == StrEncode(data, 255, errors)

AsciiEncode(data) == StrEncode(data, 127, "strict")

\* base64.b64encode on bytes: every three bytes give four symbols, and the
\* last group is padded
B64Group(bytes, g) ==
    LET p == 3 * (g - 1) + 1
        n == Len(bytes)
        b1 == bytes[p]
        b2 == IF p + 1 <= n THEN bytes[p + 1] ELSE 0
        b3 == IF p + 2 <= n THEN bytes[p + 2] ELSE 0
    IN  << B64Char(b1 \div 4),
           B64Char((b1 % 4) * 16 + b2 \div 16),
           IF p + 1 > n THEN BASE64_PAD ELSE B64Char((b2 % 16) * 4 + b3 \div 64),
           IF p + 2 > n THEN BASE64_PAD ELSE B64Char(b3 % 64) >>

B64Encode(bytes) ==
    LET groups == (Len(bytes) + 2) \div 3
    IN  Join([g \in 1..groups |-> B64Group(bytes, g)], 1, groups)

\* base64.b64decode on bytes, not validating.  The loop keeps quad_pos (data
\* symbols seen, modulo 4) and pads (pad characters seen since the last data
\* symbol, counted only while quad_pos >= 2).  A character outside the
\* alphabet is skipped; a pad that completes its quad ends the parse; input
\* that ends inside a quad raises.
IsData(c) == c # BASE64_PAD /\ B64Val(c) < 64

\* the data symbols before position i
DataBefore(ascii, i) == Cardinality({j \in 1..(i - 1) : IsData(ascii[j])})

\* pads when the loop reaches the pad at position i, with quad_pos >= 2
PadsBefore(ascii, i) ==
    Cardinality({j \in 1..(i - 1) :
        /\ ascii[j] = BASE64_PAD
        /\ \A m \in (j + 1)..(i - 1) : ~IsData(ascii[m])})

\* the positions of the pads at which the loop stops
StopsAt(ascii) ==
    {i \in 1..Len(ascii) :
        /\ ascii[i] = BASE64_PAD
        /\ DataBefore(ascii, i) % 4 >= 2
        /\ (DataBefore(ascii, i) % 4) + PadsBefore(ascii, i) + 1 >= 4}

\* the bytes the loop emits for the g-th quad of the data symbol values d:
\* one byte for each symbol of the quad after its first
B64Quad(d, g) ==
    LET q == 4 * (g - 1) + 1
        m == Len(d)
    IN  (IF q + 1 <= m THEN <<d[q] * 4 + d[q + 1] \div 16>> ELSE <<>>)
        \o (IF q + 2 <= m THEN <<(d[q + 1] % 16) * 16 + d[q + 2] \div 4>> ELSE <<>>)
        \o (IF q + 3 <= m THEN <<(d[q + 2] % 4) * 64 + d[q + 3]>> ELSE <<>>)

B64Bytes(d) ==
    LET quads == (Len(d) + 3) \div 4
    IN  Join([g \in 1..quads |-> B64Quad(d, g)], 1, quads)

B64Decode(ascii) ==
    LET stops == StopsAt(ascii)
        stop == IF stops = {} THEN Len(ascii) + 1
                ELSE CHOOSE i \in stops : \A j \in stops : i <= j
        read == SelectSeq(SubSeq(ascii, 1, stop - 1), IsData)
        d == Join([q \in 1..Len(read) |-> <<B64Val(read[q])>>], 1, Len(read))
    IN  IF stops = {} /\ Len(read) % 4 # 0 THEN Raise("binascii.Error")
        ELSE Ok(B64Bytes(d))

_base_encode(self, data, encode_type) ==
    IF encode_type = 0 THEN
        LET bytes == Latin1Encode(data, self.encoding_errors)
        IN  IF ~bytes.ok THEN bytes ELSE Ok(B64Encode(bytes.val))
    ELSE
        LET ascii == AsciiEncode(data)
        IN  IF ~ascii.ok THEN ascii ELSE B64Decode(ascii.val)

----------------------------------------------------------------------------
(* encode, decode: the value returned or the exception raised, the stages   *)
(* entered, in order, and what the stages that returned gave (outs)         *)

Returned(r, log, outs) ==
    [ok |-> r.ok, val |-> r.val, err |-> r.err, log |-> log, outs |-> outs]

\* encode with its first two stages exchanged
encode_switch_first(self, data) ==
    LET r1 == _switch_encode(self, data)
        l1 == <<"switch">>
        o1 == <<r1>>
        r2 == _base_encode(self, r1, 0)
        l2 == Append(l1, "base64_encode")
    IN  IF ~r2.ok THEN Returned(r2, l2, o1) ELSE
    LET o2 == Append(o1, r2.val)
        r3 == _pass_encode(self, r2.val, 0)
        l3 == Append(l2, "shift_encode")
    IN  IF ~r3.ok THEN Returned(r3, l3, o2) ELSE
    LET o3 == Append(o2, r3.val)
        r4 == _base_encode(self, r3.val, 0)
        l4 == Append(l3, "base64_encode")
    IN  IF ~r4.ok THEN Returned(r4, l4, o3) ELSE
    LET o4 == Append(o3, r4.val)
        r5 == _switch_encode(self, r4.val)
    IN  Returned(Ok(r5), Append(l4, "switch"), Append(o4, r5))

encode(self, data) ==
    LET r1 == _base_encode(self, data, 0)
        l1 == <<"base64_encode">>
    IN  IF ~r1.ok THEN Returned(r1, l1, <<>>) ELSE
    LET o1 == <<r1.val>>
        r2 == _switch_encode(self, r1.val)
        l2 == Append(l1, "switch")
        o2 == Append(o1, r2)
        r3 == _pass_encode(self, r2, 0)
        l3 == Append(l2, "shift_encode")
    IN  IF ~r3.ok THEN Returned(r3, l3, o2) ELSE
    LET o3 == Append(o2, r3.val)
        r4 == _base_encode(self, r3.val, 0)
        l4 == Append(l3, "base64_encode")
    IN  IF ~r4.ok THEN Returned(r4, l4, o3) ELSE
    LET o4 == Append(o3, r4.val)
        r5 == _switch_encode(self, r4.val)
    IN  Returned(Ok(r5), Append(l4, "switch"), Append(o4, r5))

\* decode with its last two stages exchanged
decode_switch_last(self, data) ==
    LET r1 == _switch_encode(self, data)
        l1 == <<"switch">>
        o1 == <<r1>>
        r2 == _base_encode(self, r1, 1)
        l2 == Append(l1, "base64_decode")
    IN  IF ~r2.ok THEN Returned(r2, l2, o1) ELSE
    LET o2 == Append(o1, r2.val)
        r3 == _pass_encode(self, r2.val, 1)
        l3 == Append(l2, "shift_decode")
    IN  IF ~r3.ok THEN Returned(r3, l3, o2) ELSE
    LET o3 == Append(o2, r3.val)
        r4 == _base_encode(self, r3.val, 1)
        l4 == Append(l3, "base64_decode")
    IN  IF ~r4.ok THEN Returned(r4, l4, o3) ELSE
    LET o4 == Append(o3, r4.val)
        r5 == _switch_encode(self, r4.val)
    IN  Returned(Ok(r5), Append(l4, "switch"), Append(o4, r5))

\* decode without its second substitution
decode_one_switch(self, data) ==
    LET r1 == _switch_encode(self, data)
        l1 == <<"switch">>
        o1 == <<r1>>
        r2 == _base_encode(self, r1, 1)
        l2 == Append(l1, "base64_decode")
    IN  IF ~r2.ok THEN Returned(r2, l2, o1) ELSE
    LET o2 == Append(o1, r2.val)
        r3 == _pass_encode(self, r2.val, 1)
        l3 == Append(l2, "shift_decode")
    IN  IF ~r3.ok THEN Returned(r3, l3, o2) ELSE
    LET o3 == Append(o2, r3.val)
        r4 == _base_encode(self, r3.val, 1)
    IN  Returned(r4, Append(l3, "base64_decode"),
                 IF r4.ok THEN Append(o3, r4.val) ELSE o3)

decode(self, data) ==
    LET r1 == _switch_encode(self, data)
        l1 == <<"switch">>
        o1 == <<r1>>
        r2 == _base_encode(self, r1, 1)
        l2 == Append(l1, "base64_decode")
    IN  IF ~r2.ok THEN Returned(r2, l2, o1) ELSE
    LET o2 == Append(o1, r2.val)
        r3 == _pass_encode(self, r2.val, 1)
        l3 == Append(l2, "shift_decode")
    IN  IF ~r3.ok THEN Returned(r3, l3, o2) ELSE
    LET o3 == Append(o2, r3.val)
        r4 == _switch_encode(self, r3.val)
        l4 == Append(l3, "switch")
        o4 == Append(o3, r4)
        r5 == _base_encode(self, r4, 1)
    IN  Returned(r5, Append(l4, "base64_decode"),
                 IF r5.ok THEN Append(o4, r5.val) ELSE o4)

----------------------------------------------------------------------------
(* The driver: main() and Coder *)

\* exit_code while sys.exit() has not been called
NoExit == -1

ZeroStats == [total |-> 0, success |-> 0, failed |-> 0, skipped |-> 0, validated |-> 0]

\* no driver is running
DriverOff ==
    /\ args = [action |-> "none", dry_run |-> FALSE, validate |-> FALSE, skip_backup |-> TRUE]
    /\ pc = "off"
    /\ backup = "none"
    /\ table = <<>>
    /\ table0 = <<>>
    /\ plain = <<>>
    /\ runs = 0
    /\ documents = <<>>
    /\ idx = 1
    /\ stats = ZeroStats
    /\ updates = <<>>
    /\ exit_code = NoExit

----------------------------------------------------------------------------
(* The engine under a caller: one TANSSCrypto instance, and a caller that   *)
(* feeds each call's result to the next call                                *)

\* the characters of the short inputs: 'V' (in enc_map) and U+0100 (the first
\* character Latin-1 cannot encode)
Chars == {86, 256}

RECURSIVE Strings(_)
Strings(n) ==
    IF n = 0 THEN {<<>>}
    ELSE LET shorter == Strings(n - 1)
         IN  shorter \cup {Append(s, c) : s \in {x \in shorter : Len(x) = n - 1}, c \in Chars}

\* the long input: 0xFF (the last Latin-1 character) and 'A' (not in enc_map)
LongInput == [i \in 1..LongLen |-> IF i % 2 = 0 THEN 65 ELSE 255]

Inputs == Strings(MaxLen) \cup {LongInput}

\* what can happen to stored text before it is decoded: a symbol outside the
\* base64 alphabet ('!') is added, or the last symbol is lost
TamperKinds == {"invalid_symbol", "truncated"}

Tampered(s, kind) ==
    IF kind = "invalid_symbol" THEN <<33>> \o s ELSE SubSeq(s, 1, Len(s) - 1)

\* the record of one engine call: the ID of the row it was made for (0, which
\* is no row's ID, for a call made outside a run of the driver), the method,
\* its argument and its outcome
Call(doc, op, arg, r) ==
    [doc |-> doc, op |-> op, arg |-> arg,
     ok |-> r.ok, val |-> r.val, err |-> r.err, log |-> r.log, outs |-> r.outs]

EngineInit ==
    /\ ctor_arg \in Policies \cup {Omitted}
    /\ encoder = TANSSCrypto(ctor_arg)
    /\ cur \in {Ok(s) : s \in Inputs}
    /\ hist = <<>>
    /\ DriverOff

Encode ==
    /\ cur.ok
    /\ Len(hist) < MaxCalls
    /\ LET r == encode(encoder, cur.val)
       IN  /\ hist' = Append(hist, Call(0, "encode", cur.val, r))
           /\ cur' = [ok |-> r.ok, val |-> r.val, err |-> r.err]
    /\ UNCHANGED <<engineVars, driverVars>>

Decode ==
    /\ cur.ok
    /\ Len(hist) < MaxCalls
    /\ LET r == decode(encoder, cur.val)
       IN  /\ hist' = Append(hist, Call(0, "decode", cur.val, r))
           /\ cur' = [ok |-> r.ok, val |-> r.val, err |-> r.err]
    /\ UNCHANGED <<engineVars, driverVars>>

Switch ==
    /\ cur.ok
    /\ Len(hist) < MaxCalls
    /\ LET r == Returned(Ok(_switch_encode(encoder, cur.val)), <<"switch">>,
                         <<_switch_encode(encoder, cur.val)>>)
       IN  /\ hist' = Append(hist, Call(0, "switch", cur.val, r))
           /\ cur' = [ok |-> r.ok, val |-> r.val, err |-> r.err]
    /\ UNCHANGED <<engineVars, driverVars>>

\* the text an encode call returned is damaged before the next call reads it
Tamper ==
    /\ hist # <<>>
    /\ hist[Len(hist)].op = "encode"
    /\ cur.ok
    /\ cur.val = hist[Len(hist)].val
    /\ Len(cur.val) > 0
    /\ \E kind \in TamperKinds : cur' = Ok(Tampered(cur.val, kind))
    /\ UNCHANGED <<engineVars, hist, driverVars>>

\* the caller takes up the argument of an earlier call again
Reuse ==
    /\ Len(hist) < MaxCalls
    /\ \E i \in 1..Len(hist) :
           /\ ~(cur.ok /\ cur.val = hist[i].arg)
           /\ cur' = Ok(hist[i].arg)
    /\ UNCHANGED <<engineVars, hist, driverVars>>

Next == Encode \/ Decode \/ Switch \/ Tamper \/ Reuse

Spec == EngineInit /\ [][Next]_vars

----------------------------------------------------------------------------
(* The driver's run: main(), Coder.encrypt_documents, decrypt_documents *)

\* the choices of --encoding-errors
DriverPolicies == {"strict", "ignore", "replace"}

IDs == 1..NRows

\* what a row of the fixture may hold
PlainText == <<65>>

NotLatin1Text == <<256>>

\* PlainText as an engine with the default policy encodes it
EncodedText == encode(TANSSCrypto(Omitted), PlainText).val

\* the rows a table is made of: plain text, text Latin-1 cannot encode, an
\* empty row, encoded text, encoded text with a symbol outside the base64
\* alphabet added, and encoded text that lost its last symbol
RowKinds == {"plain", "not_latin1", "empty", "encoded", "invalid_symbol", "truncated"}

RowOfKind(kind) ==
    IF kind = "plain" THEN [inhalt |-> PlainText, kodiert |-> 0]
    ELSE IF kind = "not_latin1" THEN [inhalt |-> NotLatin1Text, kodiert |-> 0]
    ELSE IF kind = "empty" THEN [inhalt |-> <<>>, kodiert |-> 0]
    ELSE IF kind = "encoded" THEN [inhalt |-> EncodedText, kodiert |-> 1]
    ELSE [inhalt |-> Tampered(EncodedText, kind), kodiert |-> 1]

\* the text a row of the fixture stands for
PlainOfKind(kind) ==
    IF kind = "not_latin1" THEN NotLatin1Text
    ELSE IF kind = "empty" THEN <<>>
    ELSE PlainText

DriverInit ==
    /\ ctor_arg \in DriverPolicies
    /\ encoder = TANSSCrypto(ctor_arg)
    /\ cur = Ok(<<>>)
    /\ hist = <<>>
    /\ args \in [action : {"encrypt", "decrypt"}, dry_run : BOOLEAN,
                 validate : BOOLEAN, skip_backup : BOOLEAN]
    /\ pc = "backup"
    /\ backup = "none"
    /\ \E kinds \in [IDs -> RowKinds] :
           /\ table = [id \in IDs |-> RowOfKind(kinds[id])]
           /\ plain = [id \in IDs |-> PlainOfKind(kinds[id])]
    /\ table0 = table
    /\ runs = 1
    /\ documents = <<>>
    /\ idx = 1
    /\ stats = ZeroStats
    /\ updates = <<>>
    /\ exit_code = NoExit

\* backup_database(): the path of the dump ("created"); None when mysqldump
\* returns non-zero or the try block raises ("failed"); or the exception of
\* backup_path.mkdir(exist_ok=True), which is called before the try block
\* ("raised")
backup_database == {"created", "failed", "raised"}

\* main(): the backup step.  When backup_database() returns None main()
\* warns and goes on; when it raises, main()'s except Exception exits with 1.
Backup ==
    /\ pc = "backup"
    /\ \E outcome \in IF args.skip_backup THEN {"skipped"} ELSE backup_database :
           /\ backup' = outcome
           /\ IF outcome = "raised" THEN pc' = "exited" /\ exit_code' = 1
              ELSE pc' = "connect" /\ exit_code' = exit_code
    /\ UNCHANGED <<engineVars, callerVars, args, table, table0, plain, runs, documents, idx,
                   stats, updates>>

\* connect(): pymysql.Error is logged and raised again, and main() exits with 1
Connect ==
    /\ pc = "connect"
    /\ \E connected \in BOOLEAN :
           IF connected THEN pc' = "select" /\ exit_code' = exit_code
           ELSE pc' = "exited" /\ exit_code' = 1
    /\ UNCHANGED <<engineVars, callerVars, args, backup, table, table0, plain, runs,
                   documents, idx,
                   stats, updates>>

\* a query that does not look at the flag
Selected_any_flag(encrypted) == {id \in IDs : table[id].inhalt # <<>>}

\* WHERE kodiert = %s AND inhalt IS NOT NULL AND inhalt != ''
Selected(encrypted) ==
    {id \in IDs : table[id].kodiert = (IF encrypted THEN 1 ELSE 0) /\ table[id].inhalt # <<>>}

\* the orders in which fetchall() may return the selected rows: the query
\* has no ORDER BY
Orders(ids) ==
    {order \in [1..Cardinality(ids) -> ids] :
        \A k, m \in 1..Cardinality(ids) : order[k] = order[m] => k = m}

\* one row as the DictCursor returns it
Fetched(id) == [ID |-> id, inhalt |-> table[id].inhalt, kodiert |-> table[id].kodiert]

\* get_documents(encrypted): the rows selected, or pymysql.Error raised again
get_documents(encrypted) ==
    {Ok([k \in DOMAIN order |-> Fetched(order[k])]) : order \in Orders(Selected(encrypted))}
        \cup {Raise("pymysql.Error")}

\* encrypt_documents / decrypt_documents up to the loop: the rows are
\* fetched and the statistics are set up; an error of the query leaves
\* through main()'s except Exception, which exits with 1
GetDocuments ==
    /\ pc = "select"
    /\ \E fetched \in get_documents(args.action = "decrypt") :
           IF fetched.ok THEN
               /\ documents' = fetched.val
               /\ stats' = [ZeroStats EXCEPT !.total = Len(fetched.val)]
               /\ pc' = "loop"
               /\ exit_code' = exit_code
           ELSE
               /\ pc' = "exited"
               /\ exit_code' = 1
               /\ UNCHANGED <<documents, stats>>
    /\ idx' = 1
    /\ UNCHANGED <<engineVars, callerVars, args, backup, table, table0, plain, runs, updates>>

\* a loop that skips the update only when validating
SkipsUpdate_validate_only == args.validate

\* if dry_run or validate: the row is counted as skipped and not written
SkipsUpdate == args.dry_run \/ args.validate

\* an encrypt loop that decodes when validating but never compares
EncryptRow_no_compare(doc, encrypted_content, decoded_content) ==
    LET called1 == <<Call(doc.ID, "encode", doc.inhalt, encrypted_content)>>
        called2 == Append(called1, Call(doc.ID, "decode", encrypted_content.val, decoded_content))
    IN  IF ~encrypted_content.ok \/ (args.validate /\ ~decoded_content.ok)
            THEN [calls |-> IF encrypted_content.ok THEN called2 ELSE called1,
                  count |-> "failed", validated |-> FALSE, write |-> <<>>]
        ELSE IF args.dry_run \/ args.validate
            THEN [calls |-> IF args.validate THEN called2 ELSE called1,
                  count |-> "skipped", validated |-> args.validate, write |-> <<>>]
        ELSE [calls |-> called1, count |-> "update", validated |-> FALSE,
              write |-> encrypted_content.val]

\* what the try block of encrypt_documents does with one row, given what
\* encode(content) and decode(encrypted_content) come to: the engine calls
\* it makes, the counter it increments, whether it counts the row as
\* validated, and the content it hands to update_document
EncryptRow(doc, encrypted_content, decoded_content) ==
    LET content == doc.inhalt
        called1 == <<Call(doc.ID, "encode", content, encrypted_content)>>
        called2 == Append(called1, Call(doc.ID, "decode", encrypted_content.val, decoded_content))
    IN  IF ~encrypted_content.ok
            THEN [calls |-> called1, count |-> "failed", validated |-> FALSE, write |-> <<>>]
        ELSE IF args.validate /\ ~decoded_content.ok
            THEN [calls |-> called2, count |-> "failed", validated |-> FALSE, write |-> <<>>]
        ELSE IF args.validate /\ decoded_content.val # content
            THEN [calls |-> called2, count |-> "failed", validated |-> FALSE, write |-> <<>>]
        ELSE IF SkipsUpdate
            THEN [calls |-> IF args.validate THEN called2 ELSE called1,
                  count |-> "skipped", validated |-> args.validate, write |-> <<>>]
        ELSE [calls |-> called1, count |-> "update", validated |-> FALSE,
              write |-> encrypted_content.val]

\* a decrypt loop that counts a row as validated before it compares
DecryptRow_validated_before_compare(doc, decrypted_content, re_encrypted_content) ==
    LET content == doc.inhalt
        called1 == <<Call(doc.ID, "decode", content, decrypted_content)>>
        called2 == Append(called1,
                       Call(doc.ID, "encode", decrypted_content.val, re_encrypted_content))
    IN  IF ~decrypted_content.ok
            THEN [calls |-> called1, count |-> "failed", validated |-> FALSE, write |-> <<>>]
        ELSE IF args.validate /\ ~re_encrypted_content.ok
            THEN [calls |-> called2, count |-> "failed", validated |-> FALSE, write |-> <<>>]
        ELSE IF args.validate /\ re_encrypted_content.val # content
            THEN [calls |-> called2, count |-> "failed", validated |-> TRUE, write |-> <<>>]
        ELSE IF SkipsUpdate
            THEN [calls |-> IF args.validate THEN called2 ELSE called1,
                  count |-> "skipped", validated |-> args.validate, write |-> <<>>]
        ELSE [calls |-> called1, count |-> "update", validated |-> FALSE,
              write |-> decrypted_content.val]

\* the same for decrypt_documents, given what decode(content) and
\* encode(decrypted_content) come to
DecryptRow(doc, decrypted_content, re_encrypted_content) ==
    LET content == doc.inhalt
        called1 == <<Call(doc.ID, "decode", content, decrypted_content)>>
        called2 == Append(called1,
                       Call(doc.ID, "encode", decrypted_content.val, re_encrypted_content))
    IN  IF ~decrypted_content.ok
            THEN [calls |-> called1, count |-> "failed", validated |-> FALSE, write |-> <<>>]
        ELSE IF args.validate /\ ~re_encrypted_content.ok
            THEN [calls |-> called2, count |-> "failed", validated |-> FALSE, write |-> <<>>]
        ELSE IF args.validate /\ re_encrypted_content.val # content
            THEN [calls |-> called2, count |-> "failed", validated |-> FALSE, write |-> <<>>]
        ELSE IF SkipsUpdate
            THEN [calls |-> IF args.validate THEN called2 ELSE called1,
                  count |-> "skipped", validated |-> args.validate, write |-> <<>>]
        ELSE [calls |-> called1, count |-> "update", validated |-> FALSE,
              write |-> decrypted_content.val]

Bump(s, counter) == [s EXCEPT ![counter] = @ + 1]

\* update_document(doc_id, content, kodiert): the UPDATE is committed, or
\* pymysql.Error is caught, the transaction is rolled back and False returned
\* a failed write that is not rolled back: the row keeps what was written
update_document_no_rollback(doc_id, content, kodiert, committed) ==
    /\ updates' = Append(updates, [ID |-> doc_id, committed |-> committed])
    /\ table' = [table EXCEPT ![doc_id] = [inhalt |-> content, kodiert |-> kodiert]]

update_document(doc_id, content, kodiert, committed) ==
    /\ updates' = Append(updates, [ID |-> doc_id, committed |-> committed])
    /\ table' = IF committed
                THEN [table EXCEPT ![doc_id] = [inhalt |-> content, kodiert |-> kodiert]]
                ELSE table

\* one pass of the for loop of encrypt_documents or decrypt_documents
ProcessDocument ==
    /\ pc = "loop"
    /\ idx <= Len(documents)
    /\ \E first \in {IF args.action = "encrypt" THEN encode(encoder, documents[idx].inhalt)
                     ELSE decode(encoder, documents[idx].inhalt)} :
       \E second \in {IF args.action = "encrypt" THEN decode(encoder, first.val)
                      ELSE encode(encoder, first.val)} :
           LET doc == documents[idx]
               row == IF args.action = "encrypt" THEN EncryptRow(doc, first, second)
                      ELSE DecryptRow(doc, first, second)
               kodiert == IF args.action = "encrypt" THEN 1 ELSE 0
               counted == IF row.validated THEN Bump(stats, "validated") ELSE stats
           IN  /\ hist' = hist \o row.calls
               /\ IF row.count = "update" THEN
                      \E committed \in BOOLEAN :
                          /\ update_document(doc.ID, row.write, kodiert, committed)
                          /\ stats' = Bump(counted, IF committed THEN "success" ELSE "failed")
                  ELSE
                      /\ stats' = Bump(counted, row.count)
                      /\ UNCHANGED <<table, updates>>
    /\ idx' = idx + 1
    /\ UNCHANGED <<engineVars, cur, args, pc, backup, table0, plain, runs, documents, exit_code>>

\* main() after the loop: disconnect, the summary, and the exit code
Finish ==
    /\ pc = "loop"
    /\ idx > Len(documents)
    /\ pc' = "exited"
    /\ exit_code' = IF stats.failed > 0 THEN 1 ELSE 0
    /\ UNCHANGED <<engineVars, callerVars, args, backup, table, table0, plain, runs,
                   documents, idx,
                   stats, updates>>

DriverNext == Backup \/ Connect \/ GetDocuments \/ ProcessDocument \/ Finish

DriverSpec == DriverInit /\ [][DriverNext]_vars

----------------------------------------------------------------------------
(* Runs of main() one after the other on the same table, under the strict  *)
(* policy, some of them interrupted                                         *)

\* the texts the rows of the fixture stand for
PlainTexts == {PlainText, NotLatin1Text, <<>>}

\* what encode gives for each of them under the strict policy
StrictEncoded == [p \in PlainTexts |-> encode(TANSSCrypto("strict"), p)]

\* the flag of a row says what its content is: 1 exactly when the content is
\* encode(plain), 0 exactly when it is plain
RowAccurate(id) ==
    LET row == table[id]
        encoded == StrictEncoded[plain[id]]
    IN  /\ row.kodiert = 1 <=> (encoded.ok /\ row.inhalt = encoded.val)
        /\ row.kodiert = 0 <=> row.inhalt = plain[id]

MigrationInit ==
    /\ DriverInit
    /\ ctor_arg = "strict"
    /\ \A id \in IDs : RowAccurate(id)

\* KeyboardInterrupt between two rows: main() prints and exits with 130
Interrupt ==
    /\ pc = "loop"
    /\ pc' = "exited"
    /\ exit_code' = 130
    /\ UNCHANGED <<engineVars, callerVars, args, backup, table, table0, plain, runs,
                   documents, idx, stats, updates>>

\* main() is started again, with the same policy, on the table as it is
NextRun ==
    /\ pc = "exited"
    /\ runs < MaxRuns
    /\ runs' = runs + 1
    /\ encoder' = TANSSCrypto(ctor_arg)
    /\ hist' = <<>>
    /\ args' \in [action : {"encrypt", "decrypt"}, dry_run : BOOLEAN,
                  validate : BOOLEAN, skip_backup : BOOLEAN]
    /\ pc' = "backup"
    /\ backup' = "none"
    /\ table0' = table
    /\ documents' = <<>>
    /\ idx' = 1
    /\ stats' = ZeroStats
    /\ updates' = <<>>
    /\ exit_code' = NoExit
    /\ UNCHANGED <<ctor_arg, cur, table, plain>>

MigrationNext == DriverNext \/ Interrupt \/ NextRun

MigrationSpec == MigrationInit /\ [][MigrationNext]_vars

----------------------------------------------------------------------------
(* Properties of the engine, under Spec *)

\* every character fits in one byte
IsLatin1(s) == \A p \in 1..Len(s) : s[p] <= 255

Strict == encoder.encoding_errors = "strict"

\* call j decodes what call i returned
DecodesResultOf(j, i) ==
    /\ j = i + 1
    /\ j <= Len(hist)
    /\ hist[j].op = "decode"
    /\ hist[j].arg = hist[i].val

\* C1: under the strict policy, for every string s of code points 0..255,
\* encode(s) returns, and decode of what it returned returns exactly s.
C1_RoundTrip ==
    \A i \in 1..Len(hist) :
        (Strict /\ hist[i].op = "encode" /\ IsLatin1(hist[i].arg)) =>
            /\ hist[i].ok
            /\ DecodesResultOf(i + 1, i) =>
                   (hist[i + 1].ok /\ hist[i + 1].val = hist[i].arg)

\* a string with a character in 128..255 has been encoded and decoded back
C1_Witness ==
    /\ Strict
    /\ Len(hist) = 2
    /\ hist[1].op = "encode"
    /\ \E p \in 1..Len(hist[1].arg) : hist[1].arg[p] = 255
    /\ DecodesResultOf(2, 1)
    /\ hist[2].val = hist[1].arg

\* C2: for every e = encode(s) with s of code points 0..255, decode(e)
\* returns and encode(decode(e)) returns exactly e.
C2_RoundTripBack ==
    \A i \in 1..Len(hist) :
        (hist[i].op = "encode" /\ IsLatin1(hist[i].arg) /\ hist[i].ok
            /\ DecodesResultOf(i + 1, i)) =>
            /\ hist[i + 1].ok
            /\ (i + 2 <= Len(hist) /\ hist[i + 2].op = "encode"
                    /\ hist[i + 2].arg = hist[i + 1].val) =>
                   (hist[i + 2].ok /\ hist[i + 2].val = hist[i].val)

\* an engine output of a non-empty string was decoded and encoded again
C2_Witness ==
    /\ Len(hist) = 3
    /\ hist[1].op = "encode" /\ IsLatin1(hist[1].arg) /\ Len(hist[1].arg) > 0
    /\ DecodesResultOf(2, 1)
    /\ hist[3].op = "encode" /\ hist[3].arg = hist[2].val
    /\ hist[3].val = hist[1].val

IsPrefix(s, t) == Len(s) <= Len(t) /\ \A p \in 1..Len(s) : s[p] = t[p]

\* a call entered the stages of order, in that order: all of them when it
\* returned, and up to the stage that raised when it raised
RanInOrder(call, order) ==
    IF call.ok THEN call.log = order
    ELSE Len(call.log) > 0 /\ IsPrefix(call.log, order)

\* C3, as stated: decode runs switch, base64_decode, shift(decode),
\* base64_decode, switch, in this order.
C3_AsClaimed ==
    \A i \in 1..Len(hist) :
        hist[i].op = "decode" =>
            RanInOrder(hist[i],
                <<"switch", "base64_decode", "shift_decode", "base64_decode", "switch">>)

\* C3, amended: decode runs switch, base64_decode, shift(decode), switch,
\* base64_decode, in this order: the stages of encode reversed, each inverted.
C3_DecodeOrder ==
    \A i \in 1..Len(hist) :
        hist[i].op = "decode" =>
            RanInOrder(hist[i],
                <<"switch", "base64_decode", "shift_decode", "switch", "base64_decode">>)

\* a decode call ran all five stages and returned
C3_Witness ==
    \E i \in 1..Len(hist) :
        hist[i].op = "decode" /\ hist[i].ok /\ Len(hist[i].log) = 5 /\ Len(hist[i].val) > 0

Count(log, stage) == Cardinality({p \in 1..Len(log) : log[p] = stage})

\* C4: encode runs base64_encode, switch, shift(encode), base64_encode,
\* switch, in this order; a call that returns has encoded base64 twice,
\* substituted twice and shifted once.
C4_EncodeOrder ==
    \A i \in 1..Len(hist) :
        hist[i].op = "encode" =>
            /\ RanInOrder(hist[i],
                   <<"base64_encode", "switch", "shift_encode", "base64_encode", "switch">>)
            /\ hist[i].ok =>
                   /\ Count(hist[i].log, "base64_encode") = 2
                   /\ Count(hist[i].log, "switch") = 2
                   /\ Count(hist[i].log, "shift_encode") = 1

\* an encode call ran all five stages and returned
C4_Witness ==
    \E i \in 1..Len(hist) :
        hist[i].op = "encode" /\ hist[i].ok /\ Len(hist[i].log) = 5 /\ Len(hist[i].val) > 0

\* C5: _switch_encode keeps the length, maps each position by itself, leaves
\* a character outside the table as it is, and undoes itself; the table is
\* 28 entries forming 14 two-cycles.
C5_SwitchInvolution ==
    /\ Len(EncMapEntries) = 28
    /\ Cardinality(DOMAIN encoder.enc_map) = 28
    /\ \A k \in DOMAIN encoder.enc_map :
           /\ encoder.enc_map[k] # k
           /\ encoder.enc_map[k] \in DOMAIN encoder.enc_map
           /\ encoder.enc_map[encoder.enc_map[k]] = k
    /\ \A i \in 1..Len(hist) :
           hist[i].op = "switch" =>
               /\ hist[i].ok
               /\ Len(hist[i].val) = Len(hist[i].arg)
               /\ \A p \in 1..Len(hist[i].arg) :
                      /\ hist[i].val[p] = _switch_encode(encoder, <<hist[i].arg[p]>>)[1]
                      /\ hist[i].arg[p] \notin DOMAIN encoder.enc_map =>
                             hist[i].val[p] = hist[i].arg[p]
               /\ (i + 1 <= Len(hist) /\ hist[i + 1].op = "switch"
                       /\ hist[i + 1].arg = hist[i].val) =>
                      hist[i + 1].val = hist[i].arg

\* a text with characters in and outside the table was switched twice
C5_Witness ==
    /\ Len(hist) >= 2
    /\ hist[1].op = "switch" /\ hist[2].op = "switch"
    /\ hist[2].arg = hist[1].val
    /\ \E p \in 1..Len(hist[1].arg) : hist[1].arg[p] \in DOMAIN encoder.enc_map
    /\ \E p \in 1..Len(hist[1].arg) : hist[1].arg[p] \notin DOMAIN encoder.enc_map
    /\ hist[1].val # hist[1].arg

C7_StrictRejects ==
    /\ ctor_arg = Omitted => Strict
    /\ \A i \in 1..Len(hist) :
           (Strict /\ hist[i].op = "encode") =>
               /\ ~IsLatin1(hist[i].arg) <=>
                      (~hist[i].ok /\ hist[i].err = "UnicodeEncodeError")
               /\ ~hist[i].ok => hist[i].val = <<>>
               /\ IsLatin1(hist[i].arg) => hist[i].ok

\* an engine built with no policy refused a string with a character above 255
C7_Witness ==
    /\ ctor_arg = Omitted
    /\ \E i \in 1..Len(hist) :
           /\ hist[i].op = "encode"
           /\ ~IsLatin1(hist[i].arg)
           /\ hist[i].err = "UnicodeEncodeError"

\* the text the first base64-decode stage of decode(s) is given is base64
\* as the standard writes it: symbols of the alphabet in groups of four,
\* with at most two pads, at the very end
SwitchedAt(s, p) == EncMapGet(encoder, s[p])

DecodesWellFormed(s) ==
    /\ Len(s) % 4 = 0
    /\ \A p \in 1..Len(s) : SwitchedAt(s, p) = BASE64_PAD \/ B64Val(SwitchedAt(s, p)) < 64
    /\ \A p \in 1..Len(s) : SwitchedAt(s, p) = BASE64_PAD =>
           /\ p >= Len(s) - 1
           /\ \A q \in p..Len(s) : SwitchedAt(s, q) = BASE64_PAD

\* C8: a decode call whose first base64-decode stage is given malformed
\* base64 (a symbol outside the alphabet, or wrong padding) raises.
C8_MalformedRaises ==
    \A i \in 1..Len(hist) :
        (hist[i].op = "decode" /\ ~DecodesWellFormed(hist[i].arg)) => ~hist[i].ok

\* ---------------------------------------------------------------------
\* The stages of encode

IsByte(c) == c >= 0 /\ c <= 255

\* a character of base64 text after the substitution: the alphabet and the
\* pad are closed under enc_map
IsB64Symbol(c) == c = BASE64_PAD \/ B64Val(c) < 64

\* every base64 symbol stays one under the substitution, and with any
\* passphrase character added it stays within 0..255
SymbolPlusKeyIsByte ==
    \A c \in 0..255 : IsB64Symbol(c) =>
        /\ IsB64Symbol(EncMapGet(TANSSCrypto(Omitted), c))
        /\ \A k \in 1..Len(Passphrase) : IsByte(c + Passphrase[k])

\* C14: in every encode call, whatever the policy and the input, a call
\* that gets past its first stage returns; what the shift stage gives is,
\* position by position, a base64 symbol plus a passphrase character, with
\* no modulo, and lies within 0..255; and the second base64 stage gives the
\* plain base64 text of exactly these bytes.  The first conjunct is the
\* same bound for every base64 symbol and every passphrase character.
C14_ShiftStaysInBytes ==
    /\ SymbolPlusKeyIsByte
    /\ \A i \in 1..Len(hist) :
        (hist[i].op = "encode" /\ Len(hist[i].log) >= 2) =>
            LET switched == hist[i].outs[2]
                shifted == hist[i].outs[3]
            IN  /\ hist[i].ok
                /\ Len(hist[i].outs) = 5
                /\ Len(shifted) = Len(switched)
                /\ \A p \in 1..Len(shifted) :
                       /\ IsB64Symbol(switched[p])
                       /\ shifted[p] = switched[p]
                              + encoder.passphrase[((p - 1) % Len(encoder.passphrase)) + 1]
                       /\ IsByte(shifted[p])
                /\ hist[i].outs[4] = B64Encode(shifted)

\* under a policy that escapes, a text with a character above 255 went
\* through the five stages, and so did a text long enough to use the whole
\* passphrase and start it again
C14_Witness ==
    /\ encoder.encoding_errors = "xmlcharrefreplace"
    /\ \E i \in 1..Len(hist) :
           /\ hist[i].op = "encode"
           /\ ~IsLatin1(hist[i].arg)
           /\ hist[i].ok
           /\ \E p \in 1..Len(hist[i].outs[3]) : hist[i].outs[3][p] > 127
    /\ \E i \in 1..Len(hist) :
           /\ hist[i].op = "encode"
           /\ hist[i].ok
           /\ Len(hist[i].outs[3]) > Len(encoder.passphrase)

\* ---------------------------------------------------------------------
\* The driver's loops

\* encrypt_documents or decrypt_documents has gone through its rows and is
\* about to return its statistics
Returns == pc = "loop" /\ idx > Len(documents)

DryRun == args.dry_run /\ ~args.validate

\* the engine method the loop applies to a row's content, and the one the
\* validate branch applies to the result
Transform == IF args.action = "encrypt" THEN "encode" ELSE "decode"

Inverse == IF args.action = "encrypt" THEN "decode" ELSE "encode"

\* the engine calls made for the k-th selected row
CallsOf(k) == {i \in 1..Len(hist) : hist[i].doc = documents[k].ID}

\* the rows the loop has gone through
Processed == 1..(idx - 1)

\* the transform of the k-th selected row raised
TransformRaised(k) ==
    \E i \in CallsOf(k) :
        /\ hist[i].op = Transform
        /\ hist[i].arg = documents[k].inhalt
        /\ ~hist[i].ok

\* the round trip of the k-th selected row raised or did not give back the
\* stored content
RoundTripFails(k) ==
    \E i \in CallsOf(k) :
        /\ hist[i].op = Transform
        /\ hist[i].arg = documents[k].inhalt
        /\ \/ ~hist[i].ok
           \/ \E j \in CallsOf(k) :
                  /\ j = i + 1
                  /\ hist[j].op = Inverse
                  /\ hist[j].arg = hist[i].val
                  /\ (~hist[j].ok \/ hist[j].val # documents[k].inhalt)

\* the loop called the engine as the code does: the transform on the stored
\* content of every row, and when validating the inverse on what it returned
CalledAsCoded ==
    \A k \in 1..Len(documents) :
        IF k \notin Processed THEN CallsOf(k) = {}
        ELSE \E i \in CallsOf(k) :
                 /\ hist[i].op = Transform
                 /\ hist[i].arg = documents[k].inhalt
                 /\ CallsOf(k) = IF args.validate /\ hist[i].ok THEN {i, i + 1} ELSE {i}
                 /\ (args.validate /\ hist[i].ok) =>
                        hist[i + 1].op = Inverse /\ hist[i + 1].arg = hist[i].val

NothingWritten == updates = <<>> /\ table = table0

\* C9 as stated: a dry run over N selected rows writes nothing and returns
\* skipped == N.
C9_AsClaimed ==
    (DryRun /\ Returns) => (NothingWritten /\ stats.skipped = Len(documents))

\* C9: a dry run writes nothing and counts no success; of its N selected
\* rows it returns as failed those whose transform raised and as skipped
\* the others, so skipped == N only when no transform raised.
C9_DryRun ==
    DryRun =>
        /\ NothingWritten
        /\ CalledAsCoded
        /\ stats.success = 0
        /\ stats.failed = Cardinality({k \in Processed : TransformRaised(k)})
        /\ stats.skipped = Cardinality({k \in Processed : ~TransformRaised(k)})
        /\ Returns => stats.skipped + stats.failed = Len(documents)
        /\ Returns => stats.total = Len(documents)

\* a dry run over two rows returned with one row skipped and one failed
C9_Witness ==
    /\ DryRun
    /\ Returns
    /\ Len(documents) = 2
    /\ \E k \in Processed : TransformRaised(k)
    /\ stats.skipped = 1
    /\ stats.failed = 1

\* C10: when validating no row is written, success stays 0, and failed is
\* the number of rows gone through whose round trip raised or did not give
\* back the stored content.
C10_Validate ==
    args.validate =>
        /\ NothingWritten
        /\ CalledAsCoded
        /\ stats.success = 0
        /\ stats.failed = Cardinality({k \in Processed : RoundTripFails(k)})
        /\ stats.validated = Cardinality({k \in Processed : ~RoundTripFails(k)})
        /\ stats.skipped = stats.validated

\* a validating run over two rows returned with exactly one row whose round
\* trip gave back something else, and reported one failure and no success
C10_Witness ==
    /\ args.validate
    /\ Returns
    /\ Len(documents) = 2
    /\ Cardinality({k \in Processed : RoundTripFails(k)}) = 1
    /\ \E k \in Processed : RoundTripFails(k) /\ ~TransformRaised(k)
    /\ \A k \in Processed : \A i \in CallsOf(k) : hist[i].ok
    /\ stats.failed = 1
    /\ stats.success = 0

\* ---------------------------------------------------------------------
\* Failures of single rows

\* the calls of update_document made for the k-th selected row
UpdatesOf(k) == {u \in 1..Len(updates) : updates[u].ID = documents[k].ID}

\* the write of the k-th selected row failed and was rolled back
WriteFailed(k) == \E u \in UpdatesOf(k) : ~updates[u].committed

\* the k-th selected row failed: its transform raised, its round trip did
\* not validate, or its write failed
RowFailed(k) ==
    \/ TransformRaised(k)
    \/ args.validate /\ RoundTripFails(k)
    \/ WriteFailed(k)

\* the stored row of the k-th selected row is as the run found it
Untouched(k) == table[documents[k].ID] = table0[documents[k].ID]

\* the loss of a row does not reach the loop: every row gone through was
\* attempted once, a failed one is counted failed and left as it was, and
\* the rows still to come have not been attempted
FailuresIsolated ==
    /\ CalledAsCoded
    /\ \A k \in 1..Len(documents) :
           /\ Cardinality(UpdatesOf(k)) <= 1
           /\ k \notin Processed => (UpdatesOf(k) = {} /\ Untouched(k))
           /\ (k \in Processed /\ RowFailed(k)) => Untouched(k)
    /\ stats.failed = Cardinality({k \in Processed : RowFailed(k)})
    /\ (pc = "exited" /\ documents # <<>>) => Processed = 1..Len(documents)

\* a step taken while rows are left goes through exactly one row and stays
\* in the loop, and the loop is left only when no row is left
LoopGoesOn ==
    /\ (pc = "loop" /\ idx <= Len(documents)) =>
           (pc' = "loop" /\ idx' = idx + 1 /\ documents' = documents)
    /\ (pc = "loop" /\ pc' # "loop") => idx > Len(documents)

\* C11: a row whose transform raises or whose write fails is counted failed
\* and stays as stored; every selected row is attempted exactly once, and
\* the loop goes through all of them whatever failed before.
C11_RowFailureIsolated == []FailuresIsolated /\ [][LoopGoesOn]_vars

\* a run returned after its first row's transform raised and its second
\* row's write failed, both counted failed and both left as stored
C11_Witness ==
    /\ Returns
    /\ Len(documents) = 2
    /\ TransformRaised(1)
    /\ WriteFailed(2)
    /\ stats.failed = 2
    /\ table = table0

\* ---------------------------------------------------------------------
\* The flags over runs

AllAccurate == \A id \in IDs : RowAccurate(id)

\* a row changes only by one committed update that sets content and flag
\* together, the flag to the other value
FlagWithContent ==
    \A id \in IDs :
        table'[id] # table[id] =>
            /\ table'[id].inhalt # table[id].inhalt
            /\ table'[id].kodiert = 1 - table[id].kodiert
            /\ updates' = Append(updates, [ID |-> id, committed |-> TRUE])
            /\ \A other \in IDs \ {id} : table'[other] = table[other]

\* C12: from a table whose flags are accurate, through encrypt and decrypt
\* runs under the strict policy, interrupted between rows or not, every
\* row's flag stays accurate, and content and flag change only together in
\* one committed update.
C12_FlagsAccurate == []AllAccurate /\ [][FlagWithContent]_vars

\* a second run was interrupted after it had updated one of its two rows
C12_Witness ==
    /\ runs = 2
    /\ pc = "exited"
    /\ exit_code = 130
    /\ Len(documents) = 2
    /\ idx = 2
    /\ Len(updates) = 1
    /\ updates[1].committed
    /\ table # table0

\* ---------------------------------------------------------------------
\* The backup step

\* the step that attempts the backup and sees it fail goes on to connect
FailedBackupGoesOn ==
    (pc = "backup" /\ backup' \in {"failed", "raised"}) => pc' = "connect"

\* C13: a backup that is attempted and fails, for whatever reason, does not
\* end the run, which goes on to connect; and no row is updated before the
\* backup was attempted.
C13_BackupNeverFatal ==
    /\ [][FailedBackupGoesOn]_vars
    /\ [](updates # <<>> => backup \in (IF args.skip_backup THEN {"skipped"}
                                        ELSE {"created", "failed"}))

\* ---------------------------------------------------------------------
\* The run counters

Parts(s) == s.success + s.failed + s.skipped

\* the counters after so many rows: the three parts add up to the rows
\* gone through, total is the number of selected rows, and the validated
\* rows are among the skipped ones
CountersPartition ==
    /\ stats.total = Len(documents)
    /\ Parts(stats) = idx - 1
    /\ Returns => Parts(stats) = stats.total
    /\ (pc = "exited" /\ documents # <<>>) => Parts(stats) = stats.total
    /\ stats.validated <= stats.skipped

\* one pass of the loop adds one to exactly one of the three parts, and
\* adds one to validated only together with skipped
OneCounterPerRow ==
    idx' = idx + 1 =>
        /\ \E counter \in {"success", "failed", "skipped"} :
               /\ stats'[counter] = stats[counter] + 1
               /\ \A other \in {"success", "failed", "skipped"} \ {counter} :
                      stats'[other] = stats[other]
        /\ stats'.total = stats.total
        /\ stats'.validated \in {stats.validated, stats.validated + 1}
        /\ stats'.validated = stats.validated + 1 => stats'.skipped = stats.skipped + 1

\* C15: after each row of encrypt_documents or decrypt_documents, success +
\* failed + skipped is the number of rows processed so far, each row having
\* incremented exactly one of the three; at the end the sum is total; and
\* every validated row is also counted as skipped, so validated <= skipped.
C15_CountersPartition == []CountersPartition /\ [][OneCounterPerRow]_vars

\* a validating decrypt run has returned with one row validated and
\* skipped and one row failed
C15_Witness ==
    /\ Returns
    /\ args.action = "decrypt"
    /\ args.validate
    /\ stats.total = 2
    /\ stats.validated = 1
    /\ stats.skipped = 1
    /\ stats.failed = 1

====
